---- MODULE Spec2Model ----
(***************************************************************************)
(* Contrastive-learning head of SimCSE (simcse/models.py): model           *)
(* construction (BertForCL.__init__ / cl_init / Pooler.__init__), the two  *)
(* forward paths (cl_forward, sentemb_forward) and the all-gather of the   *)
(* embeddings across the workers of a torch.distributed group.             *)
(*                                                                         *)
(* Tensors are functions over 0..n-1 (the source's 0-based indexing).      *)
(* An embedding row is a record naming where it comes from (rank, local    *)
(* instance, view), how it was pooled, whether the projection head was     *)
(* applied and whether it carries a gradient path.  A similarity entry is  *)
(* the pair of rows it scores plus the additive logit bias.                *)
(*                                                                         *)
(* dist.all_gather is a rendezvous: the collective runs when every rank of *)
(* the group is blocked in an all_gather, and each rank then returns from  *)
(* its own call.  Collectives are matched in the order the ranks issue     *)
(* them, whatever tensor each rank passes.                                 *)
(*                                                                         *)
(* Spec runs one process under every configuration; SpecGroup runs a group *)
(* of up to MaxWorld processes under the configurations of GroupArgs.      *)
(* SpecLockstep runs an initialized group whose workers take training      *)
(* steps together, each step with batches of one num_sent, under fairness. *)
(***************************************************************************)
EXTENDS Integers, Sequences, FiniteSets, TLC

\* ------------------------------------------------------------ bounds
MaxWorld  == 2      \* world sizes 1..MaxWorld
MaxBatch  == 2      \* per-worker batch sizes 1..MaxBatch
MaxSent   == 4      \* num_sent in 2..MaxSent
MaxWeight == 1      \* hard_negative_weight in 0..MaxWeight

\* ------------------------------------------------------------ constants
PoolerTypes == {"cls", "cls_before_pooler", "avg", "avg_top2", "avg_first_last"}

\* pooling types a configuration may name: the five above and one other
ModeStrings == PoolerTypes \cup {"max"}

NumSents == 2..MaxSent

HardNegativeWeights == 0..MaxWeight

\* Python's None (also the value shown for a local that is not bound)
None == <<>>

VARIABLES
    model_args,        \* pooler_type, mlp_only_train, do_mlm, hard_negative_weight
    dist_initialized,  \* dist.is_initialized()
    world_size,        \* dist.get_world_size(); processes of the run
    batch_size,        \* input_ids.size(0) on every worker
    batch_fields,      \* which of mlm_input_ids, mlm_labels the batches carry
    model,             \* the constructed BertForCL / RobertaForCL
    pc,                \* per rank: idle | gather | done | error
    frame,             \* per rank: the all_gather the rank is blocked in
    out                \* per rank: locals and result of the current forward call

vars == <<model_args, dist_initialized, world_size, batch_size, batch_fields, model,
          pc, frame, out>>

Ranks == 0..(world_size - 1)

\* ------------------------------------------------------------ tensors
Size(t) == Cardinality(DOMAIN t)

\* torch.cat(list, 0) of a list (0-based) of tensors
RECURSIVE CatUpTo(_, _)
CatUpTo(list, n) ==
    IF n = 0 THEN <<>>
    ELSE LET head == CatUpTo(list, n - 1)
             t    == list[n - 1]
             off  == Size(head)
         IN  [k \in 0..(off + Size(t) - 1) |->
                 IF k < off THEN head[k] ELSE t[k - off]]

CatReversed(list) ==
    CatUpTo([r \in DOMAIN list |-> list[Size(list) - 1 - r]], Size(list))

Cat(list) == CatUpTo(list, Size(list))

\* x.view((-1, x.size(-1))) of a (bs, num_sent, len) input
Flatten(x, bs, ns) == [k \in 0..(bs * ns - 1) |-> x[k \div ns][k % ns]]

\* flat.view((bs, num_sent, hidden))
View(flat, bs, ns) == [i \in 0..(bs - 1) |-> [v \in 0..(ns - 1) |-> flat[i * ns + v]]]

\* t[:, v]
Column(t, v) == [i \in DOMAIN t |-> t[i][v]]

\* the caller's batch: one token sequence per (instance, view)
InputIds(rank, bs, ns) ==
    [i \in 0..(bs - 1) |-> [v \in 0..(ns - 1) |->
        [rank |-> rank, inst |-> i, view |-> v]]]

\* ------------------------------------------------------------ construction
PoolerAcceptsAny(pooler_type) == TRUE

\* Pooler.__init__: the assert on pooler_type
PoolerAccepts(pooler_type) == pooler_type \in PoolerTypes

NoModel == [status |-> "none", pooler_type |-> "", has_mlp |-> FALSE, has_lm_head |-> FALSE]

MlpBuiltAlways(pooler_type) == TRUE

\* cl_init: the projection head is constructed for "cls" only
MlpBuilt(pooler_type) == pooler_type = "cls"

\* BertForCL.__init__ / RobertaForCL.__init__ followed by cl_init
cl_init(args) ==
    IF PoolerAccepts(args.pooler_type)
    THEN [status |-> "ok", pooler_type |-> args.pooler_type,
          has_mlp |-> MlpBuilt(args.pooler_type), has_lm_head |-> args.do_mlm]
    ELSE [status |-> "error", pooler_type |-> "", has_mlp |-> FALSE, has_lm_head |-> FALSE]

\* ------------------------------------------------------------ encoder, Pooler, MLP
CaptureAsCallerAsks(pooler_type, output_hidden_states) == output_hidden_states

\* the output_hidden_states argument both forward paths pass to the encoder
EncoderCapture(pooler_type, output_hidden_states) ==
    pooler_type \in {"avg_top2", "avg_first_last"}

\* encoder(...): final-layer states per row, and the per-layer list when asked
Encoder(rows, capture) == [last_hidden_state |-> rows, hidden_states |-> capture]

PooledRow(tok, how) ==
    [rank |-> tok.rank, inst |-> tok.inst, view |-> tok.view,
     pool |-> how, mlp |-> FALSE, grad |-> TRUE]

\* Pooler.forward: the pooled rows, what it read, and whether it raised
Pooler_forward(pooler_type, outputs) ==
    LET rows == outputs.last_hidden_state
        Pool(how) == [k \in DOMAIN rows |-> PooledRow(rows[k], how)]
    IN  IF pooler_type \in {"cls_before_pooler", "cls"}
        THEN [error |-> "", reads |-> {"last_hidden_state"}, pooled |-> Pool("last_hidden[:, 0]")]
        ELSE IF pooler_type = "avg"
        THEN [error |-> "", reads |-> {"last_hidden_state"}, pooled |-> Pool("avg(last_hidden)")]
        ELSE IF pooler_type = "avg_first_last"
        THEN IF outputs.hidden_states
             THEN [error |-> "", reads |-> {"hidden_states"},
                   pooled |-> Pool("avg(hidden_states[0], hidden_states[-1])")]
             ELSE [error |-> "TypeError", reads |-> {"hidden_states"}, pooled |-> None]
        ELSE IF pooler_type = "avg_top2"
        THEN IF outputs.hidden_states
             THEN [error |-> "", reads |-> {"hidden_states"},
                   pooled |-> Pool("avg(hidden_states[-1], hidden_states[-2])")]
             ELSE [error |-> "TypeError", reads |-> {"hidden_states"}, pooled |-> None]
        ELSE [error |-> "NotImplementedError", reads |-> {}, pooled |-> None]

\* cls.mlp(pooler_output) on every row
MLPLayer(flat) == [k \in DOMAIN flat |-> [flat[k] EXCEPT !.mlp = TRUE]]

MlpInClAlways(pooler_type) == TRUE

\* cl_forward: if cls.pooler_type == "cls"
MlpInCl(pooler_type) == pooler_type = "cls"

MlpInSentembAsInCl(pooler_type, mlp_only_train) == pooler_type = "cls"

\* sentemb_forward: if cls.pooler_type == "cls" and not cls.model_args.mlp_only_train
MlpInSentemb(pooler_type, mlp_only_train) == pooler_type = "cls" /\ ~mlp_only_train

\* ------------------------------------------------------------ similarity and loss
\* cls.sim(x.unsqueeze(1), y.unsqueeze(0)): every row of x against every row of y
Similarity(x, y) == [i \in DOMAIN x |-> [j \in DOMAIN y |-> [x |-> x[i], y |-> y[j], bias |-> 0]]]

\* t.size(-1) of a matrix
Cols(t) == Size(t[0])

\* torch.cat([a, b], 1)
CatColumns(a, b) ==
    [i \in DOMAIN a |-> [j \in 0..(Cols(a) + Cols(b) - 1) |->
        IF j < Cols(a) THEN a[i][j] ELSE b[i][j - Cols(a)]]]

\* the four tests of num_sent in cl_forward
AssignsZ3(num_sent) == num_sent = 3

GathersZ3(num_sent) == num_sent >= 3

ExtendsWithZ3(num_sent) == num_sent >= 3

AddsWeights(num_sent) == num_sent = 3

LabelsFromOne(cos_sim) == [i \in 0..(Size(cos_sim) - 1) |-> i + 1]

\* torch.arange(cos_sim.size(0))
Labels(cos_sim) == [i \in 0..(Size(cos_sim) - 1) |-> i]

\* [0.0] * n
Zeros(n) == [k \in 1..n |-> 0]

WeightRowNoOffset(i, total, nz3, w) ==
    Zeros(i) \o <<w>> \o Zeros(nz3 - i - 1) \o Zeros(total - nz3)

\* row i of the list comprehension that builds weights
WeightRow(i, total, nz3, w) ==
    Zeros(total - nz3) \o Zeros(i) \o <<w>> \o Zeros(nz3 - i - 1)

\* torch.tensor([... for i in range(z1_z3_cos.size(-1))])
Weights(cos_sim, z1_z3_cos, w) ==
    [i \in 0..(Cols(z1_z3_cos) - 1) |->
        LET row == WeightRow(i, Cols(cos_sim), Cols(z1_z3_cos), w)
        IN  [j \in 0..(Len(row) - 1) |-> row[j + 1]]]

\* cos_sim + weights
AddWeightsTo(cos_sim, weights) ==
    [i \in DOMAIN cos_sim |-> [j \in DOMAIN cos_sim[i] |->
        [cos_sim[i][j] EXCEPT !.bias = @ + weights[i][j]]]]

\* the loss as coefficients: cl of the contrastive cross-entropy, mlm of
\* mlm_weight * masked_lm_loss
ContrastiveLoss == [cl |-> 1, mlm |-> 0]

MlmTermWhenEitherGiven(mlm_in, mlm_lab) == mlm_in \/ mlm_lab

\* if mlm_outputs is not None and mlm_labels is not None
MlmTerm(mlm_in, mlm_lab) == mlm_in /\ mlm_lab

NoOut ==
    [kind |-> "none", error |-> "", line |-> 0, training |-> FALSE, num_sent |-> 0,
     mlm_in |-> FALSE, mlm_lab |-> FALSE, capture |-> FALSE, reads |-> {},
     mlp |-> FALSE, collectives |-> 0, matched |-> TRUE,
     z1 |-> None, z2 |-> None, z3 |-> None,
     z3_bound |-> FALSE, cos_cat |-> None, weights |-> None, cos_sim |-> None,
     labels |-> None, loss |-> [cl |-> 0, mlm |-> 0], pooler_output |-> None]

\* an exception leaves the call at a line of models.py
Raise(o, err, line) == [o EXCEPT !.error = err, !.line = line]

\* cl_forward from the similarity matrix to the return; o carries the call's
\* arguments and z1, z2, z3 as they stand after the (possibly skipped) gather
cl_loss(o, has_lm_head, hard_negative_weight) ==
    LET cos0 == Similarity(o.z1, o.z2)
    IN  IF ExtendsWithZ3(o.num_sent) /\ ~o.z3_bound
        THEN Raise(o, "UnboundLocalError", 200)
        ELSE
        LET ext       == ExtendsWithZ3(o.num_sent)
            z1_z3_cos == IF ext THEN Similarity(o.z1, o.z3) ELSE None
            cos1      == IF ext THEN CatColumns(cos0, z1_z3_cos) ELSE cos0
            labels    == Labels(cos1)
        IN  IF AddsWeights(o.num_sent) /\ ~ext
            THEN Raise(o, "UnboundLocalError", 316)
            ELSE
            LET add     == AddsWeights(o.num_sent)
                weights == IF add THEN Weights(cos1, z1_z3_cos, hard_negative_weight)
                           ELSE None
                cos2    == IF add THEN AddWeightsTo(cos1, weights) ELSE cos1
                done    == [o EXCEPT !.cos_cat = cos1, !.weights = weights,
                                     !.cos_sim = cos2, !.labels = labels,
                                     !.loss = ContrastiveLoss]
            IN  IF MlmTerm(o.mlm_in, o.mlm_lab)
                THEN IF has_lm_head
                     THEN [done EXCEPT !.loss = [cl |-> 1, mlm |-> 1]]
                     ELSE Raise(done, "AttributeError", 385)
                ELSE done

\* ------------------------------------------------------------ the gather
GatherWheneverInitialized(initialized, training) == initialized

\* if dist.is_initialized() and cls.training
GatherActive(initialized, training) == initialized /\ training

\* a tensor as all_gather hands it over: values only, no gradient path
Detached(t) == [k \in DOMAIN t |-> [t[k] EXCEPT !.grad = FALSE]]

\* torch.zeros_like(z)
ZerosLike(z) ==
    [k \in DOMAIN z |-> [rank |-> -1, inst |-> k, view |-> -1,
                         pool |-> "zeros", mlp |-> FALSE, grad |-> FALSE]]

\* a rank that is in no all_gather
NoFrame ==
    [tag |-> "", tensor |-> None, tensor_list |-> None, tags |-> None,
     complete |-> FALSE, z1_list |-> None]

Waiting(f, rank) == pc[rank] = "gather" /\ ~f[rank].complete

\* dist.all_gather(tensor_list=[zeros_like(z)] * world_size, tensor=z.contiguous())
\* is entered by rank; z1_list is what the rank holds from its previous all_gather
Enter(rank, tag, z, z1_list) ==
    [frame EXCEPT ![rank] =
        [tag |-> tag, tensor |-> z, tensor_list |-> [u \in Ranks |-> ZerosLike(z)],
         tags |-> [u \in Ranks |-> ""], complete |-> FALSE, z1_list |-> z1_list]]

RendezvousOfOne(f, rank) == TRUE

\* the collective can run once every rank of the group is blocked in an
\* all_gather that has not completed yet (rank itself has just entered)
Rendezvous(f, rank) == \A u \in Ranks \ {rank} : Waiting(f, u)

\* the collective fills every waiting rank's tensor_list, slot u from rank u
Exchange(f, rank) ==
    IF Rendezvous(f, rank)
    THEN [u \in Ranks |->
            IF u = rank \/ Waiting(f, u)
            THEN [f[u] EXCEPT
                    !.tensor_list = [v \in Ranks |->
                        IF v = rank \/ Waiting(f, v) THEN Detached(f[v].tensor) ELSE @[v]],
                    !.tags = [v \in Ranks |->
                        IF v = rank \/ Waiting(f, v) THEN f[v].tag ELSE @[v]],
                    !.complete = TRUE]
            ELSE f[u]]
    ELSE f

\* all_gather as cl_forward calls it
all_gather(rank, tag, z, z1_list) == Exchange(Enter(rank, tag, z, z1_list), rank)

KeepGathered(list, rank, z) == list

OwnSlotFirst(list, rank, z) == [list EXCEPT ![0] = z]

\* z_list[dist.get_rank()] = z
OwnSlot(list, rank, z) == [list EXCEPT ![rank] = z]

\* every slot of the all_gather that returned came from the same tensor as the
\* rank's own (the ranks issued their collectives in the same order)
SameTags(f) == \A u \in DOMAIN f.tags : f.tags[u] = f.tag

\* ------------------------------------------------------------ forward paths
\* cl_forward up to the test of dist.is_initialized(): encoder, Pooler, MLP and
\* the split into z1, z2, z3
cl_embed(rank, training, num_sent, mlm_in, mlm_lab, output_hidden_states) ==
    LET input_ids == Flatten(InputIds(rank, batch_size, num_sent), batch_size, num_sent)
        capture   == EncoderCapture(model_args.pooler_type, output_hidden_states)
        outputs   == Encoder(input_ids, capture)
        p         == Pooler_forward(model.pooler_type, outputs)
        o0        == [NoOut EXCEPT !.kind = "cl", !.training = training,
                                   !.num_sent = num_sent, !.mlm_in = mlm_in,
                                   !.mlm_lab = mlm_lab, !.capture = capture,
                                   !.reads = p.reads]
    IN  IF p.error # "" THEN Raise(o0, p.error, 155)
        ELSE IF MlpInCl(model.pooler_type) /\ ~model.has_mlp
        THEN Raise(o0, "AttributeError", 161)
        ELSE
        LET mlp           == MlpInCl(model.pooler_type)
            flat          == IF mlp THEN MLPLayer(p.pooled) ELSE p.pooled
            pooler_output == View(flat, batch_size, num_sent)
        IN  [o0 EXCEPT !.mlp = mlp,
                       !.z1 = Column(pooler_output, 0),
                       !.z2 = Column(pooler_output, 1),
                       !.z3 = IF AssignsZ3(num_sent) THEN Column(pooler_output, 2) ELSE None,
                       !.z3_bound = AssignsZ3(num_sent)]

\* sentemb_forward
sentemb_forward(rank, output_hidden_states) ==
    LET input_ids == [i \in 0..(batch_size - 1) |-> [rank |-> rank, inst |-> i, view |-> 0]]
        capture   == EncoderCapture(model.pooler_type, output_hidden_states)
        outputs   == Encoder(input_ids, capture)
        p         == Pooler_forward(model.pooler_type, outputs)
        mlp       == MlpInSentemb(model.pooler_type, model_args.mlp_only_train)
        o0        == [NoOut EXCEPT !.kind = "sentemb", !.capture = capture,
                                   !.reads = p.reads]
    IN  IF p.error # "" THEN Raise(o0, p.error, 429)
        ELSE IF mlp /\ ~model.has_mlp THEN Raise(o0, "AttributeError", 431)
        ELSE [o0 EXCEPT !.mlp = mlp,
                        !.pooler_output = IF mlp THEN MLPLayer(p.pooled) ELSE p.pooled]

Finished(o) == IF o.error = "" THEN "done" ELSE "error"

\* ------------------------------------------------------------ actions
Start ==
    /\ batch_size \in 1..MaxBatch
    /\ model = NoModel
    /\ pc = [r \in Ranks |-> "idle"]
    /\ frame = [r \in Ranks |-> NoFrame]
    /\ out = [r \in Ranks |-> NoOut]

AllArgs ==
    [pooler_type : ModeStrings, mlp_only_train : BOOLEAN, do_mlm : BOOLEAN,
     hard_negative_weight : HardNegativeWeights]

MlmFields == {"mlm_input_ids", "mlm_labels"}

\* one process, with or without a process group, under every configuration
Init ==
    /\ model_args \in AllArgs
    /\ batch_fields \in SUBSET MlmFields
    /\ dist_initialized \in BOOLEAN
    /\ world_size = 1
    /\ Start

\* BertForCL(config, model_args=...) / RobertaForCL(...)
Construct ==
    /\ model.status = "none"
    /\ model' = cl_init(model_args)
    /\ UNCHANGED <<model_args, dist_initialized, world_size, batch_size, batch_fields,
                   pc, frame, out>>

\* a forward call can start on a rank whose model exists and whose previous
\* call, if any, has returned
CanCall(rank) ==
    /\ model.status = "ok"
    /\ pc[rank] \in {"idle", "done"}

\* model(..., sent_emb=True)
SentembForward(rank) ==
    /\ CanCall(rank)
    /\ \E output_hidden_states \in BOOLEAN :
         LET o == sentemb_forward(rank, output_hidden_states)
         IN  /\ out' = [out EXCEPT ![rank] = o]
             /\ pc' = [pc EXCEPT ![rank] = Finished(o)]
    /\ UNCHANGED <<model_args, dist_initialized, world_size, batch_size, batch_fields,
                   model, frame>>

\* model(..., sent_emb=False): cl_forward until it returns, raises, or blocks in
\* its first all_gather
ClForward(rank) ==
    /\ CanCall(rank)
    /\ \E training \in BOOLEAN, num_sent \in NumSents, output_hidden_states \in BOOLEAN :
         LET mlm_in  == "mlm_input_ids" \in batch_fields
             mlm_lab == "mlm_labels" \in batch_fields
             o == cl_embed(rank, training, num_sent, mlm_in, mlm_lab, output_hidden_states)
         IN  IF o.error # ""
             THEN /\ out' = [out EXCEPT ![rank] = o]
                  /\ pc' = [pc EXCEPT ![rank] = "error"]
                  /\ UNCHANGED frame
             ELSE IF ~GatherActive(dist_initialized, training)
             THEN LET r == cl_loss(o, model.has_lm_head, model_args.hard_negative_weight)
                  IN  /\ out' = [out EXCEPT ![rank] = r]
                      /\ pc' = [pc EXCEPT ![rank] = Finished(r)]
                      /\ UNCHANGED frame
             ELSE IF GathersZ3(num_sent) /\ ~o.z3_bound
             THEN /\ out' = [out EXCEPT ![rank] = Raise(o, "UnboundLocalError", 174)]
                  /\ pc' = [pc EXCEPT ![rank] = "error"]
                  /\ UNCHANGED frame
             ELSE /\ out' = [out EXCEPT ![rank] = [o EXCEPT !.collectives = 1]]
                  /\ pc' = [pc EXCEPT ![rank] = "gather"]
                  /\ frame' = IF GathersZ3(num_sent)
                              THEN all_gather(rank, "z3", o.z3, None)
                              ELSE all_gather(rank, "z1", o.z1, None)
    /\ UNCHANGED <<model_args, dist_initialized, world_size, batch_size, batch_fields, model>>

AllGatherReadyAlways(rank) == TRUE

\* dist.all_gather returns on a rank once the collective has completed
AllGatherReady(rank) == frame[rank].complete

\* the all_gather a rank is blocked in returns; cl_forward runs on to its next
\* all_gather or to its end
AllGatherReturn(rank) ==
    /\ pc[rank] = "gather"
    /\ AllGatherReady(rank)
    /\ LET f == frame[rank]
           o == [out[rank] EXCEPT !.matched = @ /\ SameTags(f)]
       IN  IF f.tag = "z3"
           THEN LET z3_list == OwnSlot(f.tensor_list, rank, o.z3)
                IN  /\ out' = [out EXCEPT ![rank] = [o EXCEPT !.z3 = Cat(z3_list),
                                                            !.collectives = @ + 1]]
                    /\ frame' = all_gather(rank, "z1", o.z1, None)
                    /\ UNCHANGED pc
           ELSE IF f.tag = "z1"
           THEN /\ out' = [out EXCEPT ![rank] = [o EXCEPT !.collectives = @ + 1]]
                /\ frame' = all_gather(rank, "z2", o.z2, f.tensor_list)
                /\ UNCHANGED pc
           ELSE LET z1_list == OwnSlot(f.z1_list, rank, o.z1)
                    z2_list == OwnSlot(f.tensor_list, rank, o.z2)
                    g       == [o EXCEPT !.z1 = Cat(z1_list), !.z2 = Cat(z2_list)]
                    r       == cl_loss(g, model.has_lm_head, model_args.hard_negative_weight)
                IN  /\ out' = [out EXCEPT ![rank] = r]
                    /\ pc' = [pc EXCEPT ![rank] = Finished(r)]
                    /\ frame' = [frame EXCEPT ![rank] = NoFrame]
    /\ UNCHANGED <<model_args, dist_initialized, world_size, batch_size, batch_fields, model>>

Next ==
    \/ Construct
    \/ \E rank \in Ranks : SentembForward(rank)
    \/ \E rank \in Ranks : ClForward(rank)
    \/ \E rank \in Ranks : AllGatherReturn(rank)

Spec == Init /\ [][Next]_vars

\* the arguments the group runs use: the gather reads none of them
GroupArgs ==
    [pooler_type : {"cls"}, mlp_only_train : {FALSE}, do_mlm : BOOLEAN,
     hard_negative_weight : {0}]

\* a group of world_size processes, each with the same model
InitGroup ==
    /\ model_args \in GroupArgs
    /\ batch_fields = MlmFields
    /\ dist_initialized \in BOOLEAN
    /\ world_size \in 1..MaxWorld
    /\ Start

SpecGroup == InitGroup /\ [][Next]_vars

\* rank u is already in the training step another rank is about to start: it
\* waits in the step's first all_gather, or it raised before reaching one
Ahead(u) ==
    \/ Waiting(frame, u)
    \/ pc[u] = "error" /\ out[u].kind = "cl" /\ out[u].collectives = 0

\* the num_sent of the batch a rank is handed for its next training step: the
\* one of the step the other ranks are already in, any when the rank is first
StepNumSents(rank) ==
    IF \E u \in Ranks \ {rank} : Ahead(u)
    THEN {out[u].num_sent : u \in {v \in Ranks \ {rank} : Ahead(v)}}
    ELSE NumSents

\* one training step on a rank: model.train(); model(**batch), every rank of
\* the group with a batch of the same num_sent
LockstepForward(rank) ==
    /\ rank \in Ranks
    /\ ClForward(rank)
    /\ out'[rank].training
    /\ out'[rank].num_sent \in StepNumSents(rank)

LockstepReturn(rank) == rank \in Ranks /\ AllGatherReturn(rank)

NextLockstep ==
    \/ Construct
    \/ \E rank \in Ranks : LockstepForward(rank)
    \/ \E rank \in Ranks : LockstepReturn(rank)

\* a process group of world_size workers, initialized
InitLockstep ==
    /\ model_args \in GroupArgs
    /\ batch_fields = MlmFields
    /\ dist_initialized = TRUE
    /\ world_size \in 1..MaxWorld
    /\ Start

\* every worker is constructed and keeps taking training steps, and an
\* all_gather whose collective has completed returns
FairLockstep ==
    /\ WF_vars(Construct)
    /\ \A rank \in 0..(MaxWorld - 1) :
         /\ WF_vars(LockstepForward(rank))
         /\ WF_vars(LockstepReturn(rank))

SpecLockstep == InitLockstep /\ [][NextLockstep]_vars /\ FairLockstep

\* ------------------------------------------------------------ properties
\* a cl_forward on rank w went through the whole gather step
Gathered(w) == out[w].kind = "cl" /\ pc[w] \in {"done", "error"} /\ out[w].collectives > 0

\* global row r*B + i of z is rank r's local instance i of the given view
InRankOrder(z, view) ==
    /\ DOMAIN z = 0..(world_size * batch_size - 1)
    /\ \A r \in Ranks : \A i \in 0..(batch_size - 1) :
         LET row == z[r * batch_size + i]
         IN  row.rank = r /\ row.inst = i /\ row.view = view

\* C1: after the gather step of a group whose ranks issued the same all_gathers,
\* on every rank and for each of z1, z2 (and z3 when present) global row r*B + i
\* is rank r's local instance i, and the values are the same on every rank.
C1_GatherOrder ==
    \A w \in Ranks :
        Gathered(w) /\ out[w].matched =>
            /\ InRankOrder(out[w].z1, 0)
            /\ InRankOrder(out[w].z2, 1)
            /\ out[w].z3_bound => InRankOrder(out[w].z3, 2)
            /\ \A v \in Ranks :
                 Gathered(v) /\ out[v].matched =>
                    /\ Detached(out[v].z1) = Detached(out[w].z1)
                    /\ Detached(out[v].z2) = Detached(out[w].z2)

C1_Witness ==
    /\ world_size = 2
    /\ batch_size = 2
    /\ \A w \in Ranks :
         /\ Gathered(w) /\ out[w].matched /\ out[w].z3_bound
         /\ out[w].z3[3].rank = 1 /\ out[w].z3[3].inst = 1

\* C2: in the global set built on rank w exactly the slot of rank w is the
\* rank's own original tensor, with its gradient path; every other slot holds
\* gathered values without one; for z1, z2 and, when present, z3.
OwnSlotOnly(z, w, view) ==
    \A k \in DOMAIN z :
        IF k \div batch_size = w
        THEN z[k].grad /\ z[k].rank = w /\ z[k].inst = k % batch_size /\ z[k].view = view
        ELSE ~z[k].grad /\ (out[w].matched => z[k].rank = k \div batch_size)

C2_OwnSlotKeepsGradient ==
    \A w \in Ranks :
        Gathered(w) =>
            /\ OwnSlotOnly(out[w].z1, w, 0)
            /\ OwnSlotOnly(out[w].z2, w, 1)
            /\ out[w].z3_bound => OwnSlotOnly(out[w].z3, w, 2)

C2_Witness ==
    /\ world_size = 2
    /\ Gathered(1) /\ out[1].z3_bound
    /\ out[1].z3[batch_size].grad /\ ~out[1].z3[0].grad
    /\ out[1].z1[batch_size].grad /\ ~out[1].z1[0].grad

\* C3: the labels are 0..N-1 with N the row count of the similarity matrix
\* (batch_size without a gather, batch_size * world_size after one), and the
\* labelled column of row i scores z1 row i against the z2 embedding of the
\* same rank and local instance.
C3_LabelsPointAtPositives ==
    \A w \in Ranks :
        out[w].kind = "cl" /\ pc[w] = "done" /\ out[w].matched =>
            LET cos_sim == out[w].cos_sim
                labels  == out[w].labels
                N       == Size(cos_sim)
            IN  /\ N = IF out[w].collectives > 0 THEN batch_size * world_size
                       ELSE batch_size
                /\ DOMAIN cos_sim = 0..(N - 1)
                /\ labels = [i \in 0..(N - 1) |-> i]
                /\ \A i \in 0..(N - 1) :
                     /\ labels[i] \in 0..(N - 1)
                     /\ LET e == cos_sim[i][labels[i]]
                        IN  /\ e.x.view = 0 /\ e.y.view = 1
                            /\ e.x.rank = e.y.rank /\ e.x.inst = e.y.inst
                            /\ e.x.rank = i \div batch_size + (IF out[w].collectives > 0 THEN 0 ELSE w)
                            /\ e.x.inst = i % batch_size

C3_Witness ==
    /\ world_size = 2
    /\ batch_size = 2
    /\ out[0].kind = "cl" /\ pc[0] = "done" /\ out[0].matched /\ out[0].collectives = 3
    /\ out[0].labels[3] = 3
    /\ out[0].cos_sim[3][3].y.rank = 1
    /\ out[1].kind = "cl" /\ pc[1] = "done" /\ out[1].collectives = 0
    /\ Size(out[1].cos_sim) = 2

\* rank w comes back from the all_gather it is blocked in
Returns(w) ==
    /\ pc[w] = "gather"
    /\ pc'[w] # "gather" \/ out'[w].collectives > out[w].collectives

\* rank u is outside every all_gather before and after the step
StaysOut(u) == pc[u] # "gather" /\ pc'[u] # "gather"

\* C4: the gather blocks, without timeout or retry: an all_gather returns on a
\* rank only when every rank of the group has entered it (every slot was
\* filled by its rank), and while some rank stays outside the collective (it
\* runs outside training mode, through sentemb_forward, or has raised) every
\* rank waiting in an all_gather keeps waiting, its call unchanged.
C4_GatherBlocks ==
    [][\A w \in Ranks :
          /\ Returns(w) =>
                \A u \in Ranks :
                    /\ frame[w].tags[u] # ""
                    /\ \A k \in DOMAIN frame[w].tensor_list[u] :
                         frame[w].tensor_list[u][k].rank = u
          /\ Waiting(frame, w) /\ (\E u \in Ranks : StaysOut(u)) =>
                /\ pc'[w] = "gather"
                /\ ~frame'[w].complete
                /\ out'[w] = out[w]]_vars

C4_Witness ==
    /\ world_size = 2
    /\ Waiting(frame, 0)
    /\ pc[1] = "done"
    /\ out[1].kind = "cl"
    /\ ~out[1].training

\* a cl_forward on rank w got as far as adding the weights to cos_sim
Biased(w) == out[w].kind = "cl" /\ out[w].num_sent = 3 /\ Size(out[w].cos_sim) > 0

\* C5: with a hard negative (num_sent = 3) the bias added to the (N, 2N)
\* similarity matrix is hard_negative_weight at column N + i of row i and 0 at
\* every other column, so the first N columns are unchanged; with a weight of
\* 0 the bias is all zeros and the biased matrix is the unbiased one.
C5_BiasMatrix ==
    \A w \in Ranks :
        Biased(w) =>
            LET N       == Size(out[w].z1)
                weights == out[w].weights
                cos_sim == out[w].cos_sim
                cos_cat == out[w].cos_cat
                hnw     == model_args.hard_negative_weight
            IN  /\ N >= 1
                /\ DOMAIN weights = 0..(N - 1)
                /\ DOMAIN cos_sim = 0..(N - 1)
                /\ \A i \in 0..(N - 1) :
                     /\ DOMAIN weights[i] = 0..(2 * N - 1)
                     /\ DOMAIN cos_sim[i] = 0..(2 * N - 1)
                     /\ \A j \in 0..(2 * N - 1) :
                          /\ weights[i][j] = IF j = N + i THEN hnw ELSE 0
                          /\ cos_sim[i][j].bias = cos_cat[i][j].bias + weights[i][j]
                          /\ cos_sim[i][j].x = cos_cat[i][j].x
                          /\ cos_sim[i][j].y = cos_cat[i][j].y
                          /\ j < N => cos_sim[i][j] = cos_cat[i][j]
                /\ hnw = 0 => cos_sim = cos_cat

C5_Witness ==
    /\ model_args.hard_negative_weight = 1
    /\ batch_size = 2
    /\ Biased(0)
    /\ pc[0] = "done"
    /\ out[0].cos_sim[1][3].bias = 1
    /\ out[0].cos_sim[1][2].bias = 0

\* the lines of the gather step in models.py
GatherLines == 171..193

AllMlp(t, applied) == \A k \in DOMAIN t : t[k].mlp = applied

\* C7: the projection head is applied in cl_forward iff the pooling type is
\* cls, and in sentemb_forward iff it is cls and mlp_only_train is false; under
\* the other four types it is neither constructed nor applied.
C7_ProjectionHead ==
    LET cls == model_args.pooler_type = "cls"
    IN  /\ model.status = "ok" => (model.has_mlp <=> cls)
        /\ \A w \in Ranks :
             /\ out[w].line \notin {161, 431}
             /\ out[w].kind = "cl" =>
                   /\ Size(out[w].z1) = batch_size * (IF out[w].collectives > 0 /\ pc[w] # "gather"
                                                      THEN world_size ELSE 1)
                   /\ out[w].mlp = cls
                   /\ AllMlp(out[w].z1, cls)
                   /\ AllMlp(out[w].z2, cls)
                   /\ AllMlp(out[w].z3, cls)
             /\ out[w].kind = "sentemb" =>
                   /\ Size(out[w].pooler_output) = batch_size
                   /\ out[w].mlp = (cls /\ ~model_args.mlp_only_train)
                   /\ AllMlp(out[w].pooler_output, cls /\ ~model_args.mlp_only_train)

C7_Witness ==
    /\ model_args.pooler_type = "cls"
    /\ model_args.mlp_only_train
    /\ pc[0] = "done"
    /\ out[0].kind = "sentemb"
    /\ ~out[0].pooler_output[0].mlp

\* C8: the MLM term is additive and optional: the loss is the contrastive loss
\* plus mlm_weight times the MLM loss when both MLM inputs are supplied (and
\* usable), and the contrastive loss alone, with no error, when either is
\* missing or the model was built with do_mlm false; the logits are the
\* similarity matrix in every case.
C8_MlmOptional ==
    \A w \in Ranks :
        out[w].kind = "cl" /\ pc[w] \in {"done", "error"} /\ out[w].num_sent \in {2, 3} =>
            LET usable == out[w].mlm_in /\ out[w].mlm_lab /\ model_args.do_mlm
            IN  /\ out[w].error = ""
                /\ out[w].loss = [cl |-> 1, mlm |-> IF usable THEN 1 ELSE 0]
                /\ Size(out[w].cos_sim) > 0

\* C9: both forward paths ask the encoder for the per-layer hidden states
\* whenever the pooling type is avg_top2 or avg_first_last, whatever the caller
\* passes as output_hidden_states, so the Pooler never indexes a list that is
\* not there; under the other three types it reads the final layer only.
C9_HiddenStatesCaptured ==
    \A w \in Ranks :
        out[w].kind # "none" =>
            /\ out[w].error \notin {"TypeError", "NotImplementedError"}
            /\ out[w].line \notin {155, 429}
            /\ IF model_args.pooler_type \in {"avg_top2", "avg_first_last"}
               THEN out[w].capture /\ out[w].reads = {"hidden_states"}
               ELSE out[w].reads = {"last_hidden_state"}

C9_Witness ==
    /\ model_args.pooler_type = "avg_top2"
    /\ pc[0] = "done"
    /\ out[0].kind = "sentemb"
    /\ out[0].capture
    /\ out[0].pooler_output[0].pool = "avg(hidden_states[-1], hidden_states[-2])"

\* C10: a pooling type outside the five is rejected when the model is
\* constructed: no model exists, none is built with another type in its
\* place, and no forward call ever runs.
C10_InvalidModeRejected ==
    /\ model.status = "ok" =>
          /\ model_args.pooler_type \in PoolerTypes
          /\ model.pooler_type = model_args.pooler_type
    /\ model_args.pooler_type \notin PoolerTypes =>
          /\ model.status \in {"none", "error"}
          /\ \A w \in Ranks : pc[w] = "idle" /\ out[w].kind = "none"
    /\ \A w \in Ranks : out[w].error # "NotImplementedError"

C10_Witness ==
    /\ model_args.pooler_type = "max"
    /\ model.status = "error"
    /\ pc[0] = "idle"

\* the all_gather a training call with num_sent views issues as its n-th
GatherOrder(num_sent, n) ==
    IF num_sent >= 3 THEN <<"z3", "z1", "z2">>[n] ELSE <<"z1", "z2">>[n]

\* rank w issues its all_gathers in the order z3 (with a hard negative), z1, z2
IssuedInOrder(w) ==
    pc[w] = "gather" =>
        /\ out[w].collectives \in 1..(IF out[w].num_sent >= 3 THEN 3 ELSE 2)
        /\ frame[w].tag = GatherOrder(out[w].num_sent, out[w].collectives)

\* every all_gather rank w took part in had the same tensor on every rank
MatchedEverywhere(w) ==
    /\ out[w].matched
    /\ pc[w] = "gather" /\ frame[w].complete => SameTags(frame[w])

\* a training call of rank w on a batch of the data model does not end in an
\* exception
NeverRaises(w) == out[w].num_sent \in {2, 3} => pc[w] # "error"

\* lockstep training steps keep their all_gathers in order and matched
LockstepOrderedAndMatched ==
    \A w \in Ranks : IssuedInOrder(w) /\ MatchedEverywhere(w)

\* lockstep training steps never leave a worker blocked in an all_gather
LockstepNeverBlocks ==
    \A w \in 0..(MaxWorld - 1) :
        (w \in Ranks /\ pc[w] = "gather") ~> (w \in Ranks /\ pc[w] \in {"done", "error"})

\* C11: when in every step every worker of the group calls cl_forward in
\* training mode with the same num_sent (2 or 3), all workers issue their
\* all_gathers in the same order (z3 first with a hard negative, then z1, then
\* z2), every all_gather is matched by the same tensor on every worker, and
\* every worker's call eventually returns: none stays blocked, none raises.
C11_LockstepReturns ==
    /\ [](\A w \in 0..(MaxWorld - 1) :
            w \in Ranks => IssuedInOrder(w) /\ MatchedEverywhere(w) /\ NeverRaises(w))
    /\ \A w \in 0..(MaxWorld - 1) :
         (w \in Ranks /\ pc[w] = "gather") ~> (w \in Ranks /\ pc[w] = "done")

\* the lines of cl_forward that read z3 or z1_z3_cos
HardNegativeReads == {174, 175, 176, 200, 238, 316}

\* C12: the hard-negative guards of cl_forward agree for every num_sent (2, 3
\* or more), with or without the gather step: no call raises for reading z3 or
\* z1_z3_cos before it is assigned, z3 is bound whenever the call takes a guard
\* that reads it, and the similarity matrix has the z1-z3 columns exactly when
\* the weights were added to it.
C12_HardNegativeGuardsAgree ==
    \A w \in Ranks :
        out[w].kind = "cl" =>
            /\ out[w].error # "UnboundLocalError"
            /\ out[w].line \notin HardNegativeReads
            /\ GathersZ3(out[w].num_sent) \/ ExtendsWithZ3(out[w].num_sent) \/
               AddsWeights(out[w].num_sent) => out[w].z3_bound
            /\ Size(out[w].cos_cat) > 0 =>
                  (Cols(out[w].cos_cat) = 2 * Size(out[w].cos_cat)
                      <=> Size(out[w].weights) > 0)

====
